---- MODULE Spec2Model ----
(***************************************************************************)
(* Model of the logtriga partial-SQL parser of skytools/quoting.py:        *)
(* the tokenizer generator, the escape decoder, the three grammar drivers  *)
(* (parse_insert, parse_update, parse_delete), parse_sql and unquote_data. *)
(*                                                                         *)
(* Text is a sequence of one-character strings.  Positions are 0-based as  *)
(* in the source, so the character at position p of s is s[p + 1].         *)
(***************************************************************************)
EXTENDS Integers, Sequences, FiniteSets, TLC

\* ------------------------------------------------------------------------
\* Bounds of the model
\* ------------------------------------------------------------------------

\* most lexemes an Insert, an Update, a Delete fragment holds
MaxTokInsert == 10
MaxTokUpdate == 8
MaxTokDelete == 8

\* most entries the field list and the value list hold
MaxFields == 2

\* number of concurrent callers of the tokenizer
NumCallers == 3

\* ------------------------------------------------------------------------
\* Characters
\* ------------------------------------------------------------------------

BS == "\\"
DQ == "\""
SQ == "'"
SP == " "

WhiteSpace == {" ", "\t", "\r", "\n"}
LowerLetters == {"a", "d", "e", "h", "l", "n", "q", "r", "s", "t", "u", "v", "w"}
UpperLetters == {"A", "D", "L", "N", "U"}
Digits == {"0", "1", "2", "3", "4", "5", "6", "7", "8", "9"}
OctDigits == {"0", "1", "2", "3", "4", "5", "6", "7"}

\* str.lower() on one character
LowerChar(c) ==
    CASE c = "A" -> "a"
      [] c = "D" -> "d"
      [] c = "L" -> "l"
      [] c = "N" -> "n"
      [] c = "U" -> "u"
      [] OTHER -> c

\* str.lower()
lower(s) == [i \in 1..Len(s) |-> LowerChar(s[i])]

\* ------------------------------------------------------------------------
\* Escape decoder
\* ------------------------------------------------------------------------

\* the fixed escape table
_esc_map ==
    [c \in {"t", "n", "r", "a", "b", SQ, DQ, BS} |->
        CASE c = "t" -> "\t"
          [] c = "n" -> "\n"
          [] c = "r" -> "\r"
          [] c = "a" -> "<BEL>"
          [] c = "b" -> "<BS>"
          [] OTHER -> c]

OctVal(c) ==
    CASE c = "0" -> 0 [] c = "1" -> 1 [] c = "2" -> 2 [] c = "3" -> 3
      [] c = "4" -> 4 [] c = "5" -> 5 [] c = "6" -> 6 [] c = "7" -> 7

\* int(v, 8) of a three-digit string
int8(v) == OctVal(v[1]) * 64 + OctVal(v[2]) * 8 + OctVal(v[3])

\* chr(n) for n in range(256); bytes outside the model's alphabet are
\* written <n>
chr(n) ==
    CASE n = 9 -> "\t"
      [] n = 10 -> "\n"
      [] n = 34 -> DQ
      [] n = 39 -> SQ
      [] n = 65 -> "A"
      [] n = 92 -> BS
      [] n = 97 -> "a"
      [] OTHER -> "<" \o ToString(n) \o ">"

\* outcome of a decoding step: the decoded text, or the exception raised
Decoded(s) == [err |-> "none", out |-> s]
Raised(e) == [err |-> e, out |-> <<>>]

\* _sub_unescape looking the character up with _esc_map.get(v): a character
\* outside the table gives None, which re.sub rejects with a TypeError
_sub_unescape_get(v) ==
    IF Len(v) = 1
    THEN IF v[1] \in DOMAIN _esc_map
         THEN Decoded(<<_esc_map[v[1]]>>)
         ELSE Raised("TypeError")
    ELSE IF int8(v) < 256
         THEN Decoded(<<chr(int8(v))>>)
         ELSE Raised("ValueError")

\* _sub_unescape on the group v of one match
_sub_unescape(v) ==
    IF Len(v) = 1
    THEN IF v[1] \in DOMAIN _esc_map
         THEN Decoded(<<_esc_map[v[1]]>>)
         ELSE Raised("KeyError")
    ELSE IF int8(v) < 256
         THEN Decoded(<<chr(int8(v))>>)
         ELSE Raised("ValueError")

\* does _esc_re match at position i, and with which group
EscGroup(s, i) ==
    IF ~(i < Len(s) /\ s[i + 1] = BS) THEN <<>>
    ELSE IF /\ i + 3 < Len(s)
            /\ s[i + 2] \in OctDigits
            /\ s[i + 3] \in OctDigits
            /\ s[i + 4] \in OctDigits
         THEN SubSeq(s, i + 2, i + 4)
         ELSE IF i + 1 < Len(s) /\ s[i + 2] # "\n"
              THEN <<s[i + 2]>>
              ELSE <<>>

RECURSIVE UnescapeFrom(_, _)
\* _esc_rc.sub(_sub_unescape, val) from position i on
UnescapeFrom(s, i) ==
    IF i >= Len(s) THEN Decoded(<<>>)
    ELSE LET g == EscGroup(s, i) IN
         IF g = <<>>
         THEN LET rest == UnescapeFrom(s, i + 1) IN
              IF rest.err # "none" THEN rest
              ELSE Decoded(<<s[i + 1]>> \o rest.out)
         ELSE LET r == _sub_unescape(g) IN
              IF r.err # "none" THEN r
              ELSE LET rest == UnescapeFrom(s, i + 1 + Len(g)) IN
                   IF rest.err # "none" THEN rest
                   ELSE Decoded(r.out \o rest.out)

\* unescape(val)
unescape(val) == UnescapeFrom(val, 0)

\* ------------------------------------------------------------------------
\* Tokenizer pattern
\* ------------------------------------------------------------------------

\* the class attribute token_rc before the first call
None == [re |-> "None", flags |-> {}]

\* re.compile(self.token_re, re.X | re.I)
CompileTokenRe == [re |-> "token_re", flags |-> {"X", "I"}]

\* [a-z] under the pattern's flags
IsIdentStart(rc, c) ==
    \/ c \in LowerLetters
    \/ "I" \in rc.flags /\ c \in UpperLetters

\* [a-z0-9_] under the pattern's flags
IsIdentChar(rc, c) == IsIdentStart(rc, c) \/ c \in Digits \/ c = "_"

RECURSIVE SkipWS(_, _)
\* [ \t\r\n]* : position of the first non-blank character at or after p
SkipWS(s, p) ==
    IF p < Len(s) /\ s[p + 1] \in WhiteSpace THEN SkipWS(s, p + 1) ELSE p

RECURSIVE IdentEnd(_, _, _)
\* [a-z][a-z0-9_]* : end of the identifier whose characters up to p matched
IdentEnd(rc, s, p) ==
    IF p < Len(s) /\ IsIdentChar(rc, s[p + 1]) THEN IdentEnd(rc, s, p + 1) ELSE p

RECURSIVE DQBody(_, _)
\* ( [^"\\]+ | \\. )* ["] from position i: end of the match, or -1
DQBody(s, i) ==
    IF i >= Len(s) THEN -1
    ELSE IF s[i + 1] = DQ THEN i + 1
    ELSE IF s[i + 1] = BS
         THEN IF i + 1 < Len(s) /\ s[i + 2] # "\n" THEN DQBody(s, i + 2) ELSE -1
         ELSE DQBody(s, i + 1)

RECURSIVE SQBody(_, _)
\* ( [^'\\]+ | \\. | [']['] )* ['] from position i: end of the match, or -1.
\* A doubled quote is first tried as content, then as the closing quote.
SQBody(s, i) ==
    IF i >= Len(s) THEN -1
    ELSE IF s[i + 1] = SQ
         THEN IF i + 1 < Len(s) /\ s[i + 2] = SQ
              THEN LET r == SQBody(s, i + 2) IN IF r # -1 THEN r ELSE i + 1
              ELSE i + 1
    ELSE IF s[i + 1] = BS
         THEN IF i + 1 < Len(s) /\ s[i + 2] # "\n" THEN SQBody(s, i + 2) ELSE -1
         ELSE SQBody(s, i + 1)

\* the result of a failed match
NoMatch == [matched |-> FALSE, group1 |-> <<>>, end |-> 0]

\* rc.match(sql, pos) for the pattern compiled from token_re
rc_match(rc, s, p) ==
    LET q == SkipWS(s, p) IN
    IF q >= Len(s) THEN NoMatch
    ELSE LET c == s[q + 1]
             e == IF IsIdentStart(rc, c) THEN IdentEnd(rc, s, q + 1)
                  ELSE IF c = DQ /\ DQBody(s, q + 1) # -1 THEN DQBody(s, q + 1)
                  ELSE IF c = SQ /\ SQBody(s, q + 1) # -1 THEN SQBody(s, q + 1)
                  ELSE q + 1
         IN [matched |-> TRUE, group1 |-> SubSeq(s, q + 1, e), end |-> e]

\* ------------------------------------------------------------------------
\* Result assembler
\* ------------------------------------------------------------------------

\* the null marker
NullMarker == <<"<None>">>

\* k[1:-1]
StripEnds(k) == SubSeq(k, 2, Len(k) - 1)

\* lines 237-238: the column name of a field token
unquote_key(k) ==
    IF k[1] = DQ THEN unescape(StripEnds(k)) ELSE Decoded(k)

\* unquote_data comparing the value token with "null" as written
unquote_value_cased(v) ==
    IF Len(v) = 4 /\ v = <<"n", "u", "l", "l">> THEN Decoded(NullMarker)
    ELSE IF v[1] = SQ THEN unescape(StripEnds(v))
    ELSE Decoded(v)

\* lines 239-242: the value of a value token
unquote_value(v) ==
    IF Len(v) = 4 /\ lower(v) = <<"n", "u", "l", "l">> THEN Decoded(NullMarker)
    ELSE IF v[1] = SQ THEN unescape(StripEnds(v))
    ELSE Decoded(v)

\* data.setdefault(k, v): the first value of a name stays
DictSetDefault(d, k, v) ==
    [x \in DOMAIN d \cup {k} |-> IF x \in DOMAIN d THEN d[x] ELSE v]

\* data[k] = v
DictSet(d, k, v) == [x \in DOMAIN d \cup {k} |-> IF x = k THEN v ELSE d[x]]

\* zip(fields, values) has min(len(fields), len(values)) pairs
Min(a, b) == IF a < b THEN a ELSE b

RECURSIVE UnquoteFrom(_, _, _, _)
\* the loop of unquote_data from pair i on, data being the dict so far
UnquoteFrom(fs, vs, i, d) ==
    IF i > Min(Len(fs), Len(vs)) THEN [err |-> "none", data |-> d]
    ELSE LET k == unquote_key(fs[i]) IN
         IF k.err # "none" THEN [err |-> k.err, data |-> <<>>]
         ELSE LET v == unquote_value(vs[i]) IN
              IF v.err # "none" THEN [err |-> v.err, data |-> <<>>]
              ELSE UnquoteFrom(fs, vs, i + 1, DictSet(d, k.out, v.out))

\* unquote_data(fields, values)
unquote_data(fs, vs) == UnquoteFrom(fs, vs, 1, <<>>)

\* ------------------------------------------------------------------------
\* Fragments
\* ------------------------------------------------------------------------

LP == <<"(">>
RP == <<")">>
COMMA == <<",">>
EQ == <<"=">>
KwValues == <<"v", "a", "l", "u", "e", "s">>
KwWhere == <<"w", "h", "e", "r", "e">>
KwAnd == <<"a", "n", "d">>
KwAndUpper == <<"A", "N", "D">>
KwNull == <<"n", "u", "l", "l">>

\* a bare identifier, and a quoted identifier that decodes to the same name
IdA == <<"a">>
QuotedA == <<DQ, BS, "1", "4", "1", DQ>>
\* quoted literals: the text null, a tab escape, an escape outside the
\* table, an octal escape above 0377
LitNull == <<SQ, "n", "u", "l", "l", SQ>>
LitTab == <<SQ, BS, "t", SQ>>
LitBadEsc == <<SQ, BS, "q", SQ>>
LitBigOct == <<SQ, BS, "7", "7", "7", SQ>>

\* the lexemes fragments are written with, per operation tag: the
\* punctuation and keywords of its grammar, names, and literals
Lexemes(o) ==
    IF o = "I" THEN {LP, RP, COMMA, KwValues, IdA, LitBadEsc}
    ELSE IF o = "U" THEN {EQ, COMMA, KwWhere, KwAnd, IdA, QuotedA, LitBigOct}
    ELSE IF o = "D" THEN {EQ, KwAnd, KwAndUpper, IdA, LitBadEsc}
    ELSE {}

\* most lexemes a fragment of each operation tag holds
MaxTok(o) ==
    IF o = "I" THEN MaxTokInsert
    ELSE IF o = "U" THEN MaxTokUpdate
    ELSE MaxTokDelete

\* operation tags; X stands for any tag outside I, U, D
OpTags == {"I", "U", "D", "X"}

\* ------------------------------------------------------------------------
\* State
\* ------------------------------------------------------------------------

VARIABLES
    op,        \* parse_sql: the operation tag
    sql,       \* parse_sql: the fragment text, as far as it is written
    pos,       \* tokenizer: pos
    rc,        \* tokenizer: rc, None until the generator has started
    token_rc,  \* _logtriga_parser.token_rc
    fields,    \* parse_sql: fields
    values,    \* parse_sql: values
    pc,        \* where the call stands
    at,        \* the tk.next() call executed last
    eos,       \* whether that call raised StopIteration
    outcome,   \* "running", "mapping", or the exception that left the call
    data,      \* the mapping returned
    cpc,       \* concurrent callers: where each stands in tokenizer()
    crc,       \* concurrent callers: rc
    cseen,     \* concurrent callers: the token_rc read by line 221
    cpos,      \* concurrent callers: pos
    cout,      \* concurrent callers: the tokens yielded
    writes     \* number of assignments to token_rc made by the callers

vars == <<op, sql, pos, rc, token_rc, fields, values, pc, at, eos, outcome,
          data, cpc, crc, cseen, cpos, cout, writes>>

parseVars == <<op, sql, pos, rc, fields, values, pc, at, eos, outcome, data>>
callerVars == <<cpc, crc, cseen, cpos, cout, writes>>

Callers == 1..NumCallers

RECURSIVE TokensFrom(_, _, _)
\* every token the generator yields from position p on
TokensFrom(r, s, p) ==
    LET m == rc_match(r, s, p) IN
    IF m.matched THEN <<m.group1>> \o TokensFrom(r, s, m.end) ELSE <<>>

\* list(tokenizer(sql))
tokenizer(s) == TokensFrom(CompileTokenRe, s, 0)

\* lines 221-223 on the generator's first step
StartedRc == IF rc # None THEN rc
             ELSE IF token_rc = None THEN CompileTokenRe ELSE token_rc

\* The tokenizer is a forward-only generator, so the fragment is written one
\* blank-separated lexeme at a time, just before the tk.next() that reads it:
\* a call explores every fragment over Lexemes(op) of at most MaxTok(op)
\* lexemes, and a fragment the driver has rejected is not written further.
\* Every lexeme is one complete token, so the text written later never changes
\* the tokens already yielded.
\*
\* the fragment text with one more lexeme written; <<>> writes nothing
Feed(inp) ==
    IF inp = <<>> THEN sql
    ELSE IF sql = <<>> THEN inp ELSE sql \o <<SP>> \o inp

\* what the text may continue with: a lexeme, or nothing (the text ends)
Inputs == IF Len(tokenizer(sql)) < MaxTok(op) THEN Lexemes(op) \cup {<<>>} ELSE {<<>>}

\* tk.next(): the match it makes on the text
Match(inp) == rc_match(StartedRc, Feed(inp), pos)

\* bookkeeping of the tk.next() call at call site l
Call(l, inp, m) ==
    /\ sql' = Feed(inp)
    /\ rc' = StartedRc
    /\ token_rc' = IF token_rc = None THEN StartedRc ELSE token_rc
    /\ pos' = IF m.matched THEN m.end ELSE pos
    /\ at' = l
    /\ eos' = ~m.matched
    /\ UNCHANGED <<op, callerVars>>

\* StopIteration leaves the driver for the except clause of parse_sql
Stop == pc' = "except" /\ UNCHANGED <<fields, values, outcome, data>>

\* raise Exception("syntax error")
SyntaxError == pc' = "done" /\ outcome' = "syntax" /\ UNCHANGED <<fields, values, data>>

Goto(l) == pc' = l /\ UNCHANGED <<fields, values, outcome, data>>

AppendField(t, l) ==
    /\ Len(fields) < MaxFields
    /\ fields' = Append(fields, t)
    /\ pc' = l
    /\ UNCHANGED <<values, outcome, data>>

AppendValue(t, l) ==
    /\ Len(values) < MaxFields
    /\ values' = Append(values, t)
    /\ pc' = l
    /\ UNCHANGED <<fields, outcome, data>>

Init ==
    /\ op \in OpTags
    /\ sql = <<>>
    /\ pos = 0
    /\ rc = None
    /\ token_rc = None
    /\ fields = <<>>
    /\ values = <<>>
    /\ pc = "start"
    /\ at = "none"
    /\ eos = FALSE
    /\ outcome = "running"
    /\ data = <<>>
    /\ cpc = [c \in Callers |-> "idle"]
    /\ crc = [c \in Callers |-> None]
    /\ cseen = [c \in Callers |-> None]
    /\ cpos = [c \in Callers |-> 0]
    /\ cout = [c \in Callers |-> <<>>]
    /\ writes = 0

\* ------------------------------------------------------------------------
\* parse_sql
\* ------------------------------------------------------------------------

\* lines 307-317: choose the driver; no driver returns for another tag
Dispatch ==
    /\ pc = "start"
    /\ UNCHANGED <<op, sql, pos, rc, token_rc, at, eos, callerVars>>
    /\ IF op = "I" THEN Goto("ins_open")
       ELSE IF op = "U" THEN Goto("upd_field")
       ELSE IF op = "D" THEN Goto("del_field")
       ELSE SyntaxError

\* the sanity check without the comparison of the two lengths
SanityFailsLax(fs, vs) == Len(fs) = 0

\* line 320: the last sanity check
SanityFails(fs, vs) == Len(fs) = 0 \/ Len(fs) # Len(vs)

\* lines 318-321
Except ==
    /\ pc = "except"
    /\ UNCHANGED <<op, sql, pos, rc, token_rc, at, eos, callerVars>>
    /\ IF SanityFails(fields, values) THEN SyntaxError ELSE Goto("unquote")

\* line 323
Unquote ==
    /\ pc = "unquote"
    /\ UNCHANGED <<op, sql, pos, rc, token_rc, at, eos, fields, values, callerVars>>
    /\ pc' = "done"
    /\ LET r == unquote_data(fields, values) IN
       /\ outcome' = IF r.err = "none" THEN "mapping" ELSE r.err
       /\ data' = r.data

\* ------------------------------------------------------------------------
\* parse_insert
\* ------------------------------------------------------------------------

\* line 248
InsOpen ==
    /\ pc = "ins_open"
    /\ \E inp \in Inputs :
         LET m == Match(inp) IN
         /\ Call("ins_open", inp, m)
         /\ IF ~m.matched THEN Stop
            ELSE IF m.group1 # LP THEN SyntaxError
            ELSE Goto("ins_field")

\* line 251
InsField ==
    /\ pc = "ins_field"
    /\ \E inp \in Inputs :
         LET m == Match(inp) IN
         /\ Call("ins_field", inp, m)
         /\ IF ~m.matched THEN Stop ELSE AppendField(m.group1, "ins_sep")

\* lines 252-256
InsSep ==
    /\ pc = "ins_sep"
    /\ \E inp \in Inputs :
         LET m == Match(inp) IN
         /\ Call("ins_sep", inp, m)
         /\ IF ~m.matched THEN Stop
            ELSE IF m.group1 = RP THEN Goto("ins_values")
            ELSE IF m.group1 # COMMA THEN SyntaxError
            ELSE Goto("ins_field")

\* line 257
InsValues ==
    /\ pc = "ins_values"
    /\ \E inp \in Inputs :
         LET m == Match(inp) IN
         /\ Call("ins_values", inp, m)
         /\ IF ~m.matched THEN Stop
            ELSE IF lower(m.group1) # KwValues THEN SyntaxError
            ELSE Goto("ins_vopen")

\* line 259
InsVOpen ==
    /\ pc = "ins_vopen"
    /\ \E inp \in Inputs :
         LET m == Match(inp) IN
         /\ Call("ins_vopen", inp, m)
         /\ IF ~m.matched THEN Stop
            ELSE IF m.group1 # LP THEN SyntaxError
            ELSE Goto("ins_val")

\* the value loop without the test of line 265: a comma is a value
InsValKeepsComma ==
    /\ pc = "ins_val"
    /\ \E inp \in Inputs :
         LET m == Match(inp) IN
         /\ Call("ins_val", inp, m)
         /\ IF ~m.matched THEN Stop
            ELSE IF m.group1 = RP THEN Goto("ins_tail")
            ELSE AppendValue(m.group1, "ins_val")

\* lines 262-267
InsVal ==
    /\ pc = "ins_val"
    /\ \E inp \in Inputs :
         LET m == Match(inp) IN
         /\ Call("ins_val", inp, m)
         /\ IF ~m.matched THEN Stop
            ELSE IF m.group1 = RP THEN Goto("ins_tail")
            ELSE IF m.group1 = COMMA THEN Goto("ins_val")
            ELSE AppendValue(m.group1, "ins_val")

\* line 268 with the raise of line 317 skipped once a token was discarded
InsTailLenient ==
    /\ pc = "ins_tail"
    /\ \E inp \in Inputs :
         LET m == Match(inp) IN
         /\ Call("ins_tail", inp, m)
         /\ Stop

\* line 268, and line 317 once parse_insert has returned
InsTail ==
    /\ pc = "ins_tail"
    /\ \E inp \in Inputs :
         LET m == Match(inp) IN
         /\ Call("ins_tail", inp, m)
         /\ IF ~m.matched THEN Stop ELSE SyntaxError

\* ------------------------------------------------------------------------
\* parse_update
\* ------------------------------------------------------------------------

\* line 273
UpdField ==
    /\ pc = "upd_field"
    /\ \E inp \in Inputs :
         LET m == Match(inp) IN
         /\ Call("upd_field", inp, m)
         /\ IF ~m.matched THEN Stop ELSE AppendField(m.group1, "upd_eq")

\* lines 274-275
UpdEq ==
    /\ pc = "upd_eq"
    /\ \E inp \in Inputs :
         LET m == Match(inp) IN
         /\ Call("upd_eq", inp, m)
         /\ IF ~m.matched THEN Stop
            ELSE IF m.group1 # EQ THEN SyntaxError
            ELSE Goto("upd_value")

\* line 276
UpdValue ==
    /\ pc = "upd_value"
    /\ \E inp \in Inputs :
         LET m == Match(inp) IN
         /\ Call("upd_value", inp, m)
         /\ IF ~m.matched THEN Stop ELSE AppendValue(m.group1, "upd_sep")

\* lines 278-284
UpdSep ==
    /\ pc = "upd_sep"
    /\ \E inp \in Inputs :
         LET m == Match(inp) IN
         /\ Call("upd_sep", inp, m)
         /\ IF ~m.matched THEN Stop
            ELSE IF m.group1 = COMMA THEN Goto("upd_field")
            ELSE IF lower(m.group1) = KwWhere THEN Goto("upd_wfield")
            ELSE SyntaxError

\* lines 286-287
UpdWField ==
    /\ pc = "upd_wfield"
    /\ \E inp \in Inputs :
         LET m == Match(inp) IN
         /\ Call("upd_wfield", inp, m)
         /\ IF ~m.matched THEN Stop ELSE AppendField(m.group1, "upd_weq")

\* lines 288-289
UpdWEq ==
    /\ pc = "upd_weq"
    /\ \E inp \in Inputs :
         LET m == Match(inp) IN
         /\ Call("upd_weq", inp, m)
         /\ IF ~m.matched THEN Stop
            ELSE IF m.group1 # EQ THEN SyntaxError
            ELSE Goto("upd_wvalue")

\* line 290
UpdWValue ==
    /\ pc = "upd_wvalue"
    /\ \E inp \in Inputs :
         LET m == Match(inp) IN
         /\ Call("upd_wvalue", inp, m)
         /\ IF ~m.matched THEN Stop ELSE AppendValue(m.group1, "upd_and")

\* lines 291-293
UpdAnd ==
    /\ pc = "upd_and"
    /\ \E inp \in Inputs :
         LET m == Match(inp) IN
         /\ Call("upd_and", inp, m)
         /\ IF ~m.matched THEN Stop
            ELSE IF lower(m.group1) # KwAnd THEN SyntaxError
            ELSE Goto("upd_wfield")

\* ------------------------------------------------------------------------
\* parse_delete
\* ------------------------------------------------------------------------

\* line 299: is the token the separator the loop skips
IsDeleteAnd(t) == t = KwAnd

\* lines 298-301
DelField ==
    /\ pc = "del_field"
    /\ \E inp \in Inputs :
         LET m == Match(inp) IN
         /\ Call("del_field", inp, m)
         /\ IF ~m.matched THEN Stop
            ELSE IF IsDeleteAnd(m.group1) THEN Goto("del_field")
            ELSE AppendField(m.group1, "del_eq")

\* lines 302-303
DelEq ==
    /\ pc = "del_eq"
    /\ \E inp \in Inputs :
         LET m == Match(inp) IN
         /\ Call("del_eq", inp, m)
         /\ IF ~m.matched THEN Stop
            ELSE IF m.group1 # EQ THEN SyntaxError
            ELSE Goto("del_value")

\* line 304
DelValue ==
    /\ pc = "del_value"
    /\ \E inp \in Inputs :
         LET m == Match(inp) IN
         /\ Call("del_value", inp, m)
         /\ IF ~m.matched THEN Stop ELSE AppendValue(m.group1, "del_field")

\* ------------------------------------------------------------------------
\* Specification of one call of parse_logtriga_sql
\* ------------------------------------------------------------------------

Next ==
    \/ Dispatch
    \/ InsOpen \/ InsField \/ InsSep \/ InsValues \/ InsVOpen \/ InsVal \/ InsTail
    \/ UpdField \/ UpdEq \/ UpdValue \/ UpdSep
    \/ UpdWField \/ UpdWEq \/ UpdWValue \/ UpdAnd
    \/ DelField \/ DelEq \/ DelValue
    \/ Except
    \/ Unquote

Spec == Init /\ [][Next]_vars

\* ------------------------------------------------------------------------
\* Specification of the result assembler on its own: a Delete call whose
\* token stream has ended, with the field and value lists it has read
\* ------------------------------------------------------------------------

NullMixed == <<"N", "u", "L", "l">>
QuotedEsc == <<DQ, "a", BS, DQ, "l", DQ>>
LitDoubled == <<SQ, "a", SQ, SQ, "a", SQ>>

\* the tokens the lists are drawn from
FieldTokens == {IdA, QuotedA, QuotedEsc, LitNull}
ValueTokens == {KwNull, NullMixed, LitNull, LitTab, LitDoubled, IdA, QuotedA, LitBadEsc}

RECURSIVE DeleteText(_, _)
\* the Delete fragment that lists the fields fs with the values vs
DeleteText(fs, vs) ==
    IF fs = <<>> THEN <<>>
    ELSE LET pair == Head(fs) \o <<SP>> \o EQ \o <<SP>> \o Head(vs)
             rest == DeleteText(Tail(fs), Tail(vs))
         IN IF rest = <<>> THEN pair ELSE pair \o <<SP>> \o rest

InitUnquote ==
    /\ op = "D"
    /\ \E n \in 1..MaxFields :
         /\ fields \in [1..n -> FieldTokens]
         /\ values \in [1..n -> ValueTokens]
    /\ sql = DeleteText(fields, values)
    /\ pos = Len(sql)
    /\ rc = CompileTokenRe
    /\ token_rc = CompileTokenRe
    /\ pc = "except"
    /\ at = "del_field"
    /\ eos = TRUE
    /\ outcome = "running"
    /\ data = <<>>
    /\ cpc = [c \in Callers |-> "idle"]
    /\ crc = [c \in Callers |-> None]
    /\ cseen = [c \in Callers |-> None]
    /\ cpos = [c \in Callers |-> 0]
    /\ cout = [c \in Callers |-> <<>>]
    /\ writes = 0

NextUnquote == Except \/ Unquote

SpecUnquote == InitUnquote /\ [][NextUnquote]_vars

\* ------------------------------------------------------------------------
\* Specification of concurrent callers of the tokenizer: each runs the
\* generator of lines 220-231 to its end, one statement at a time
\* ------------------------------------------------------------------------

\* the fragments the callers tokenize
CallerTexts ==
    << KwAndUpper \o <<SP>> \o EQ \o <<SP>> \o LitNull,
       LP \o IdA \o COMMA \o QuotedA \o RP,
       IdA \o EQ \o NullMixed >>

CallerSql(c) == CallerTexts[((c - 1) % Len(CallerTexts)) + 1]

\* line 221: read token_rc and test it
CallerCheck(c) ==
    /\ cpc[c] = "idle"
    /\ cseen' = [cseen EXCEPT ![c] = token_rc]
    /\ cpc' = [cpc EXCEPT ![c] = IF token_rc = None THEN "compile" ELSE "read"]
    /\ UNCHANGED <<token_rc, crc, cpos, cout, writes, parseVars>>

\* line 222: compile and assign token_rc
CallerCompile(c) ==
    /\ cpc[c] = "compile"
    /\ token_rc' = CompileTokenRe
    /\ writes' = writes + 1
    /\ cpc' = [cpc EXCEPT ![c] = "read"]
    /\ UNCHANGED <<crc, cseen, cpos, cout, parseVars>>

\* line 223 taking the value that line 221 tested instead of reading again
CallerReadStale(c) ==
    /\ cpc[c] = "read"
    /\ crc' = [crc EXCEPT ![c] = cseen[c]]
    /\ cpos' = [cpos EXCEPT ![c] = 0]
    /\ cpc' = [cpc EXCEPT ![c] = "match"]
    /\ UNCHANGED <<token_rc, cseen, cout, writes, parseVars>>

\* lines 223-225: rc = self.token_rc; pos = 0
CallerRead(c) ==
    /\ cpc[c] = "read"
    /\ crc' = [crc EXCEPT ![c] = token_rc]
    /\ cpos' = [cpos EXCEPT ![c] = 0]
    /\ cpc' = [cpc EXCEPT ![c] = "match"]
    /\ UNCHANGED <<token_rc, cseen, cout, writes, parseVars>>

\* lines 226-231: one round of the loop; None has no match method
CallerMatch(c) ==
    /\ cpc[c] = "match"
    /\ IF crc[c] = None
       THEN /\ cpc' = [cpc EXCEPT ![c] = "crashed"]
            /\ UNCHANGED <<cpos, cout>>
       ELSE LET m == rc_match(crc[c], CallerSql(c), cpos[c]) IN
            IF m.matched
            THEN /\ cpos' = [cpos EXCEPT ![c] = m.end]
                 /\ cout' = [cout EXCEPT ![c] = Append(@, m.group1)]
                 /\ UNCHANGED cpc
            ELSE /\ cpc' = [cpc EXCEPT ![c] = "done"]
                 /\ UNCHANGED <<cpos, cout>>
    /\ UNCHANGED <<token_rc, crc, cseen, writes, parseVars>>

InitCallers == Init /\ op = "X"

NextCallers ==
    \E c \in Callers :
        \/ CallerCheck(c)
        \/ CallerCompile(c)
        \/ CallerRead(c)
        \/ CallerMatch(c)

SpecCallers == InitCallers /\ [][NextCallers]_vars

\* ------------------------------------------------------------------------
\* Properties
\* ------------------------------------------------------------------------

Finished == pc = "done"

\* C1: for Update, a mapping is returned only when End-of-Stream is met
\* where the `and` check runs (line 291); End-of-Stream at any other call
\* raises the syntax error.
C1_UpdateEndsOnlyAtAnd ==
    (op = "U" /\ Finished /\ eos /\ at # "upd_and") => outcome = "syntax"

\* C2: for Insert, a token stream that ends before the closing `)` of the
\* value list raises the syntax error, whatever was read so far.
C2_InsertTruncatedRaises ==
    (/\ op = "I"
     /\ Finished
     /\ eos
     /\ at \in {"ins_open", "ins_field", "ins_sep", "ins_values", "ins_vopen", "ins_val"})
        => outcome = "syntax"

\* C3: whenever a mapping is returned the field list and the value list have
\* the same length, at least 1; a call that ends with unequal or empty lists
\* raises the syntax error.
C3_CountsEqualOnSuccess ==
    /\ outcome = "mapping" => (Len(fields) = Len(values) /\ Len(fields) >= 1)
    /\ (Finished /\ (Len(fields) # Len(values) \/ Len(fields) = 0))
          => outcome = "syntax"

C3_Witness ==
    /\ outcome = "mapping"
    /\ Len(fields) = 2
    /\ Len(values) = 2

\* C4: for Delete, a token that equals `and` in any letter case is skipped
\* and never recorded as a field name.
C4_DeleteSkipsAndInAnyCase ==
    op = "D" => \A i \in 1..Len(fields) : lower(fields[i]) # KwAnd

\* C5 as stated: an Insert that got past the closing `)` of the value list
\* succeeds only when line 268 consumed a token and the stream ended after it.
C5_SucceedsAfterDiscardedToken ==
    (op = "I" /\ at = "ins_tail" /\ outcome = "mapping") => ~eos

\* C5 as amended: an Insert that got past the closing `)` of the value list
\* raises the syntax error when line 268 finds a further token; when line 268
\* finds the stream exhausted, it raises the syntax error exactly when the
\* field count and the value count differ.
C5_SucceedsOnlyWhenExhaustedAtParen ==
    (op = "I" /\ Finished /\ at = "ins_tail") =>
        /\ ~eos => outcome = "syntax"
        /\ eos => (outcome = "syntax" <=> Len(fields) # Len(values))

C5_Witness ==
    /\ op = "I"
    /\ Finished
    /\ at = "ins_tail"
    /\ eos
    /\ outcome = "mapping"
    /\ Len(fields) = 2

\* the column name and the value C6 gives for a token
C6_Name(k) ==
    IF Head(k) = DQ THEN unescape(SubSeq(k, 2, Len(k) - 1)).out ELSE k

C6_Value(v) ==
    IF Len(v) = 4 /\ lower(v) = KwNull THEN NullMarker
    ELSE IF Head(v) = SQ THEN unescape(SubSeq(v, 2, Len(v) - 1)).out
    ELSE v

\* C6: on success the mapping holds the names of the field tokens, and the
\* i-th name carries the i-th value (unless a later field token has the same
\* name), names and values being decoded as C6 states.
C6_DecodedPairs ==
    outcome = "mapping" =>
        /\ DOMAIN data = {C6_Name(fields[i]) : i \in 1..Len(fields)}
        /\ \A i \in 1..Len(fields) :
             (\A j \in (i + 1)..Len(fields) : C6_Name(fields[j]) # C6_Name(fields[i]))
                 => data[C6_Name(fields[i])] = C6_Value(values[i])

C6_Witness ==
    /\ outcome = "mapping"
    /\ fields = <<QuotedEsc, IdA>>
    /\ values = <<LitNull, NullMixed>>
    /\ data[<<"a", DQ, "l">>] = KwNull
    /\ data[IdA] = NullMarker

\* C7 as stated: a call returns a mapping or fails with the syntax error.
C7_MappingOrSyntaxError ==
    Finished => outcome \in {"mapping", "syntax"}

\* does decoding token t, quoted with q, raise e
C7_Raises(t, q, e) == Head(t) = q /\ unescape(SubSeq(t, 2, Len(t) - 1)).err = e

\* C7 as amended: a call returns a mapping, fails with the syntax error, or
\* fails with a KeyError or ValueError of the escape decoder; the latter only
\* past the sanity check, on a quoted token whose decoding raises it; a tag
\* outside I, U, D gives the syntax error.
C7_MappingSyntaxOrDecodingError ==
    Finished =>
        /\ outcome \in {"mapping", "syntax", "KeyError", "ValueError"}
        /\ op = "X" => outcome = "syntax"
        /\ \A e \in {"KeyError", "ValueError"} :
             outcome = e =>
                /\ eos
                /\ Len(fields) = Len(values)
                /\ \E i \in 1..Len(fields) :
                     \/ C7_Raises(fields[i], DQ, e)
                     \/ lower(values[i]) # KwNull /\ C7_Raises(values[i], SQ, e)

C7_Witness ==
    /\ Finished
    /\ op = "I"
    /\ outcome = "KeyError"
    /\ LitBadEsc \in {values[i] : i \in 1..Len(values)}

\* C8 as stated: token_rc is assigned once.
C8_BuiltOnce == writes <= 1

\* C8 as amended: token_rc is assigned once by every caller that read it as
\* unset; every assignment stores the pattern compiled from token_re, it is
\* never unset again, and every caller tokenizes with that pattern and yields
\* the tokens it yields when it runs alone.
C8_EquivalentPatternForAll ==
    /\ writes = Cardinality({c \in Callers :
                                cseen[c] = None /\ cpc[c] \notin {"idle", "compile"}})
    /\ token_rc = (IF writes > 0 THEN CompileTokenRe ELSE None)
    /\ \A c \in Callers :
         /\ cpc[c] # "crashed"
         /\ cpc[c] \in {"match", "done"} => crc[c] = CompileTokenRe
         /\ cpc[c] = "done" => cout[c] = tokenizer(CallerSql(c))

C8_Witness ==
    /\ writes >= 2
    /\ \A c \in Callers : cpc[c] = "done"

\* the last field token with the same column name as the i-th
C9_Last(i) ==
    CHOOSE j \in i..Len(fields) :
        /\ unquote_key(fields[j]).out = unquote_key(fields[i]).out
        /\ \A h \in (j + 1)..Len(fields) :
             unquote_key(fields[h]).out # unquote_key(fields[i]).out

\* C9: a column name that occurs more than once among the field tokens has
\* one entry in the mapping, with the value of its last occurrence; the
\* mapping has at most as many entries as there are field tokens.
C9_LastOccurrenceWins ==
    outcome = "mapping" =>
        /\ Cardinality(DOMAIN data) <= Len(fields)
        /\ \A i \in 1..Len(fields) :
             data[unquote_key(fields[i]).out] = unquote_value(values[C9_Last(i)]).out

C9_Witness ==
    /\ outcome = "mapping"
    /\ op = "U"
    /\ at = "upd_and"
    /\ fields = <<IdA, QuotedA>>
    /\ values[1] # values[2]
    /\ Cardinality(DOMAIN data) < Len(fields)

\* the tokens of an Insert's value list, whose closing `)` has been read
C10_ValueList ==
    LET toks == tokenizer(sql)
        close == IF eos THEN Len(toks) ELSE Len(toks) - 1
    IN SubSeq(toks, 2 * Len(fields) + 4, close - 1)

C10_NotComma(t) == t # COMMA

\* what C10 says of a field list fs and the non-comma tokens vs
C10_Expected(fs, vs) ==
    IF Len(fs) # Len(vs) THEN <<"syntax", <<>>>>
    ELSE LET r == unquote_data(fs, vs) IN
         <<IF r.err = "none" THEN "mapping" ELSE r.err, r.data>>

\* C10: the outcome of an Insert whose stream ends at the closing `)` of the
\* value list is decided by the field list and the non-comma tokens of the
\* value list: the commas, wherever they stand, change nothing, and the list
\* is accepted exactly when it has as many non-comma tokens as there are
\* fields.
C10_CommasAreSkipped ==
    (op = "I" /\ Finished /\ at = "ins_tail" /\ eos) =>
        /\ values = SelectSeq(C10_ValueList, C10_NotComma)
        /\ <<outcome, data>> = C10_Expected(fields, SelectSeq(C10_ValueList, C10_NotComma))
        /\ outcome = "syntax" <=> Len(SelectSeq(C10_ValueList, C10_NotComma)) # Len(fields)

C10_Witness ==
    /\ op = "I"
    /\ Finished
    /\ at = "ins_tail"
    /\ eos
    /\ outcome = "mapping"
    /\ C10_ValueList = <<COMMA, IdA, COMMA, COMMA>>

====
